---------------------------- MODULE Spec2Model ----------------------------
(* FixedVec (src/src/lib.rs): a vector over a caller-supplied slice.       *)
(* A vector is a record [memory, len]: memory is the borrowed slice (its   *)
(* length is the capacity), len the number of active elements.  Rust       *)
(* position i (0-based) is memory[i + 1] here.  Every slice access is      *)
(* bounds checked as in Rust: an access outside the slice panics.          *)
EXTENDS Integers, Sequences, FiniteSets, TLC

VARIABLES vec, region, last, iters, twin

vars == <<vec, region, last, iters, twin>>

(* ------------------------------ bounds -------------------------------- *)
MaxCap == 3      \* largest region size explored
MaxVal == 1      \* elements are drawn from 0..MaxVal
MaxInput == 2    \* longest slice / producer handed to push_all and extend
MaxViews == 2    \* views (Iter values) that can be alive at once

Values == 0..MaxVal
NoRet == -1      \* marks "no value returned"

(* ------------------------- slices with bounds checks ------------------ *)
InBounds(m, i) == i >= 0 /\ i < Len(m)
Get(m, i) == m[i + 1]
Set(m, i, x) == [m EXCEPT ![i + 1] = x]

Vec(m, n) == [memory |-> m, len |-> n]
Res(v, outcome, ret, steps) ==
    [vec |-> v, outcome |-> outcome, ret |-> ret, steps |-> steps]

(* ------------------------------ queries ------------------------------- *)
new(memory) == Vec(memory, 0)
capacity(v) == Len(v.memory)
len(v) == v.len
available(v) == capacity(v) - len(v)
is_empty(v) == v.len = 0
as_slice(v) == SubSeq(v.memory, 1, v.len)

(* ------------------------------- push --------------------------------- *)
push_has_room_ge0(v) == available(v) >= 0
push_has_room(v) == available(v) >= 1

push(v, value) ==
    IF push_has_room(v)
    THEN IF InBounds(v.memory, v.len)
         THEN Res(Vec(Set(v.memory, v.len, value), v.len + 1), "Ok", NoRet, 0)
         ELSE Res(v, "Panic", NoRet, 0)
    ELSE Res(v, "NoSpace", NoRet, 0)

(* ------------------------------ insert -------------------------------- *)
insert_oob_ge(v, index) == index >= capacity(v)
insert_oob(v, index) == index > capacity(v)

RECURSIVE insert_shift(_, _, _, _)
insert_shift(m, i, index, steps) ==
    IF i = index THEN [memory |-> m, fault |-> FALSE, steps |-> steps]
    ELSE IF i - 1 < 0 \/ ~InBounds(m, i - 1) \/ ~InBounds(m, i)
         THEN [memory |-> m, fault |-> TRUE, steps |-> steps + 1]
         ELSE insert_shift(Set(m, i, Get(m, i - 1)), i - 1, index, steps + 1)

insert_no_empty_case(v, index, element) ==
    IF insert_oob(v, index) THEN Res(v, "Panic", NoRet, 0)
    ELSE IF available(v) >= 1
         THEN LET n == v.len + 1
                  sh == insert_shift(v.memory, n, index, 0)
              IN  IF sh.fault \/ ~InBounds(sh.memory, index)
                  THEN Res(Vec(sh.memory, n), "Panic", NoRet, sh.steps)
                  ELSE Res(Vec(Set(sh.memory, index, element), n),
                           "Ok", NoRet, sh.steps)
         ELSE Res(v, "NoSpace", NoRet, 0)

insert(v, index, element) ==
    IF insert_oob(v, index) THEN Res(v, "Panic", NoRet, 0)
    ELSE IF len(v) = 0 THEN push(v, element)
    ELSE IF available(v) >= 1
         THEN LET n == v.len + 1
                  sh == insert_shift(v.memory, n, index, 0)
              IN  IF sh.fault \/ ~InBounds(sh.memory, index)
                  THEN Res(Vec(sh.memory, n), "Panic", NoRet, sh.steps)
                  ELSE Res(Vec(Set(sh.memory, index, element), n),
                           "Ok", NoRet, sh.steps)
         ELSE Res(v, "NoSpace", NoRet, 0)

(* ------------------------------ remove -------------------------------- *)
RECURSIVE remove_shift_wrong_way(_, _, _, _)
remove_shift_wrong_way(m, i, end, steps) ==
    IF i >= end THEN [memory |-> m, fault |-> FALSE, steps |-> steps]
    ELSE IF ~InBounds(m, i + 1) \/ ~InBounds(m, i)
         THEN [memory |-> m, fault |-> TRUE, steps |-> steps + 1]
         ELSE remove_shift_wrong_way(Set(m, i + 1, Get(m, i)), i + 1, end,
                                     steps + 1)

RECURSIVE remove_shift(_, _, _, _)
remove_shift(m, i, end, steps) ==
    IF i >= end THEN [memory |-> m, fault |-> FALSE, steps |-> steps]
    ELSE IF ~InBounds(m, i + 1) \/ ~InBounds(m, i)
         THEN [memory |-> m, fault |-> TRUE, steps |-> steps + 1]
         ELSE remove_shift(Set(m, i, Get(m, i + 1)), i + 1, end, steps + 1)

remove(v, index) ==
    IF ~(index < v.len) THEN Res(v, "Panic", NoRet, 0)
    ELSE IF ~InBounds(v.memory, index) THEN Res(v, "Panic", NoRet, 0)
    ELSE LET ret == Get(v.memory, index)
             n == v.len - 1
             sh == remove_shift(v.memory, index, n, 0)
         IN  IF sh.fault
             THEN Res(Vec(sh.memory, n), "Panic", NoRet, sh.steps)
             ELSE Res(Vec(sh.memory, n), "Returned", ret, sh.steps)

(* -------------------------------- pop --------------------------------- *)
pop_before_decrement(v) ==
    IF v.len > 0
    THEN IF InBounds(v.memory, v.len)
         THEN Res(Vec(v.memory, v.len - 1), "Some", Get(v.memory, v.len), 0)
         ELSE Res(v, "Panic", NoRet, 0)
    ELSE Res(v, "None", NoRet, 0)

pop(v) ==
    IF v.len > 0
    THEN IF InBounds(v.memory, v.len - 1)
         THEN Res(Vec(v.memory, v.len - 1), "Some",
                  Get(v.memory, v.len - 1), 0)
         ELSE Res(Vec(v.memory, v.len - 1), "Panic", NoRet, 0)
    ELSE Res(v, "None", NoRet, 0)

(* ------------------------------ push_all ------------------------------ *)
RECURSIVE push_all_loop(_, _, _)
push_all_loop(v, other, i) ==
    IF i >= Len(other) THEN Res(v, "Ok", NoRet, i)
    ELSE IF ~InBounds(v.memory, v.len) THEN Res(v, "Panic", NoRet, i + 1)
    ELSE push_all_loop(Vec(Set(v.memory, v.len, Get(other, i)), v.len + 1),
                       other, i + 1)

push_all_partial(v, other) ==
    IF available(v) = 0 /\ Len(other) > 0 THEN Res(v, "NoSpace", NoRet, 0)
    ELSE LET k == IF Len(other) > available(v) THEN available(v)
                  ELSE Len(other)
             r == push_all_loop(v, SubSeq(other, 1, k), 0)
         IN  IF Len(other) > available(v)
             THEN Res(r.vec, "NoSpace", NoRet, r.steps) ELSE r

push_all(v, other) ==
    IF Len(other) > available(v) THEN Res(v, "NoSpace", NoRet, 0)
    ELSE push_all_loop(v, other, 0)

(* ------------------------------- clear -------------------------------- *)
clear_zeroing(v) ==
    Res(Vec([k \in 1..Len(v.memory) |-> 0], 0), "Returned", NoRet, 0)

clear(v) == Res(Vec(v.memory, 0), "Returned", NoRet, 0)

(* ---------------------------- map_in_place ---------------------------- *)
RECURSIVE map_in_place_loop(_, _, _)
map_in_place_loop(v, f, i) ==
    IF i >= v.len THEN Res(v, "Returned", NoRet, i)
    ELSE IF ~InBounds(v.memory, i) THEN Res(v, "Panic", NoRet, i + 1)
    ELSE map_in_place_loop(Vec(Set(v.memory, i, f[Get(v.memory, i)]), v.len),
                           f, i + 1)

map_in_place(v, f) == map_in_place_loop(v, f, 0)

(* ---------------------------- swap_remove ----------------------------- *)
swap_remove_no_assert(v, index) ==
    IF v.len = 1 THEN remove(v, 0)
    ELSE IF ~InBounds(v.memory, index) THEN Res(v, "Panic", NoRet, 0)
    ELSE LET removed == Get(v.memory, index)
             p == pop(v)
         IN  IF p.outcome # "Some" THEN Res(p.vec, "Panic", NoRet, 0)
             ELSE Res(Vec(Set(p.vec.memory, index, p.ret), p.vec.len),
                      "Returned", removed, 0)

swap_remove(v, index) ==
    IF ~(index < v.len) THEN Res(v, "Panic", NoRet, 0)
    ELSE IF v.len = 1 THEN remove(v, 0)
    ELSE IF ~InBounds(v.memory, index) THEN Res(v, "Panic", NoRet, 0)
    ELSE LET removed == Get(v.memory, index)
             p == pop(v)
         IN  IF p.outcome # "Some" THEN Res(p.vec, "Panic", NoRet, 0)
             ELSE Res(Vec(Set(p.vec.memory, index, p.ret), p.vec.len),
                      "Returned", removed, 0)

(* ------------------------------- resize ------------------------------- *)
resize_fill_from_start(m, i, end, value) ==
    [k \in 1..Len(m) |-> IF k <= end THEN value ELSE m[k]]

RECURSIVE resize_fill(_, _, _, _)
resize_fill(m, i, end, value) ==
    IF i >= end THEN m ELSE resize_fill(Set(m, i, value), i + 1, end, value)

resize(v, new_len, value) ==
    IF ~(new_len <= capacity(v)) THEN Res(v, "Panic", NoRet, 0)
    ELSE IF new_len <= v.len THEN Res(Vec(v.memory, new_len), "Returned", NoRet, 0)
    ELSE IF v.len > new_len \/ new_len > Len(v.memory)
         THEN Res(v, "Panic", NoRet, 0)
         ELSE Res(Vec(resize_fill(v.memory, v.len, new_len, value), new_len),
                  "Returned", NoRet, new_len - v.len)

(* ------------------------------- retain ------------------------------- *)
retain_len_off(tail) == tail + 1
retain_len(tail) == tail

RECURSIVE retain_loop_to_capacity(_, _, _, _)
retain_loop_to_capacity(v, f, head, tail) ==
    IF head >= capacity(v)
    THEN Res(Vec(v.memory, retain_len(tail)), "Returned", NoRet, head)
    ELSE IF ~InBounds(v.memory, head) THEN Res(v, "Panic", NoRet, head + 1)
    ELSE IF Get(v.memory, head) \in f
         THEN IF ~InBounds(v.memory, tail) THEN Res(v, "Panic", NoRet, head + 1)
              ELSE retain_loop_to_capacity(
                       Vec(Set(v.memory, tail, Get(v.memory, head)), v.len),
                       f, head + 1, tail + 1)
         ELSE retain_loop_to_capacity(v, f, head + 1, tail)

RECURSIVE retain_loop(_, _, _, _)
retain_loop(v, f, head, tail) ==
    IF head >= v.len THEN Res(Vec(v.memory, retain_len(tail)), "Returned", NoRet, head)
    ELSE IF ~InBounds(v.memory, head) THEN Res(v, "Panic", NoRet, head + 1)
    ELSE IF Get(v.memory, head) \in f
         THEN IF ~InBounds(v.memory, tail) THEN Res(v, "Panic", NoRet, head + 1)
              ELSE retain_loop(Vec(Set(v.memory, tail, Get(v.memory, head)), v.len),
                               f, head + 1, tail + 1)
         ELSE retain_loop(v, f, head + 1, tail)

retain(v, f) == retain_loop(v, f, 0, 0)

(* -------------------------------- dedup ------------------------------- *)
RECURSIVE dedup_loop(_, _, _)
dedup_loop(v, head, tail) ==
    IF head >= v.len THEN Res(Vec(v.memory, tail + 1), "Returned", NoRet, head - 1)
    ELSE IF ~InBounds(v.memory, head) \/ ~InBounds(v.memory, tail)
         THEN Res(v, "Panic", NoRet, head)
    ELSE IF Get(v.memory, head) # Get(v.memory, tail)
         THEN IF ~InBounds(v.memory, tail + 1) THEN Res(v, "Panic", NoRet, head)
              ELSE dedup_loop(Vec(Set(v.memory, tail + 1, Get(v.memory, head)), v.len),
                              head + 1, tail + 1)
         ELSE dedup_loop(v, head + 1, tail)

dedup_head_from_2(v) ==
    IF v.len <= 1 THEN Res(v, "Returned", NoRet, 0)
    ELSE dedup_loop(v, 2, 0)

dedup(v) ==
    IF v.len <= 1 THEN Res(v, "Returned", NoRet, 0)
    ELSE dedup_loop(v, 1, 0)

(* ------------------------------- extend ------------------------------- *)
RECURSIVE extend_loop(_, _, _)
extend_loop(v, iterable, i) ==
    IF i >= Len(iterable) THEN Res(v, "Returned", NoRet, i)
    ELSE IF ~InBounds(v.memory, v.len) THEN Res(v, "Panic", NoRet, i + 1)
    ELSE LET w == Vec(Set(v.memory, v.len, Get(iterable, i)), v.len + 1)
         IN  IF available(w) = 0 THEN Res(w, "Returned", NoRet, i + 1)
             ELSE extend_loop(w, iterable, i + 1)

extend_no_full_check(v, iterable) == extend_loop(v, iterable, 0)

extend(v, iterable) ==
    IF available(v) = 0 THEN Res(v, "Returned", NoRet, 0)
    ELSE extend_loop(v, iterable, 0)

(* --------------------------- Index / IndexMut ------------------------- *)
index(v, i) ==
    IF InBounds(v.memory, i) THEN Res(v, "Returned", Get(v.memory, i), 0)
    ELSE Res(v, "Panic", NoRet, 0)

index_mut(v, i, x) ==
    IF InBounds(v.memory, i) THEN Res(Vec(Set(v.memory, i, x), v.len), "Returned", NoRet, 0)
    ELSE Res(v, "Panic", NoRet, 0)

(* -------------------------------- Hash -------------------------------- *)
(* Hash for a slice writes the slice's length and then every element; the *)
(* result is the sequence of words handed to the hasher.                   *)
hash(v) == <<Len(v.memory)>> \o v.memory

(* ------------------------------ PartialEq ----------------------------- *)
(* "panic" when an indexed read inside the comparison faults               *)
RECURSIVE eq_all(_, _, _)
eq_all(a, b, i) ==
    IF i >= len(a) THEN "true"
    ELSE LET x == index(a, i)
             y == index(b, i)
         IN  IF x.outcome = "Panic" \/ y.outcome = "Panic" THEN "panic"
             ELSE IF x.ret = y.ret THEN eq_all(a, b, i + 1)
             ELSE "false"

eq_whole(a, b) == IF a.memory = b.memory THEN "true" ELSE "false"

eq(a, b) ==
    IF len(a) # len(b) THEN "false"
    ELSE eq_all(a, b, 0)

(* -------------------------------- Iter -------------------------------- *)
(* A view is [live, idx, yielded]: idx is the cursor of struct Iter, its   *)
(* list is the vector itself (borrowed while the view is live), yielded    *)
(* records the values it has handed out so far.                            *)
NoView == [live |-> FALSE, idx |-> 0, yielded |-> <<>>]
iter(list) == [live |-> TRUE, idx |-> 0, yielded |-> <<>>]

next_reads_at_idx(it, list) ==
    IF it.idx >= len(list)
    THEN [it |-> it, outcome |-> "None", ret |-> NoRet]
    ELSE LET moved == [it EXCEPT !.idx = it.idx + 1]
             r == index(list, moved.idx)
         IN  IF r.outcome = "Panic"
             THEN [it |-> moved, outcome |-> "Panic", ret |-> NoRet]
             ELSE [it |-> [moved EXCEPT !.yielded = Append(@, r.ret)],
                   outcome |-> "Some", ret |-> r.ret]

next(it, list) ==
    IF it.idx >= len(list)
    THEN [it |-> it, outcome |-> "None", ret |-> NoRet]
    ELSE LET moved == [it EXCEPT !.idx = it.idx + 1]
             r == index(list, moved.idx - 1)
         IN  IF r.outcome = "Panic"
             THEN [it |-> moved, outcome |-> "Panic", ret |-> NoRet]
             ELSE [it |-> [moved EXCEPT !.yielded = Append(@, r.ret)],
                   outcome |-> "Some", ret |-> r.ret]

(* size_hint: nelem = list.len() - idx in usize.  Were idx above len the   *)
(* subtraction would overflow: a panic in a build with overflow checks,    *)
(* the wrapped value 2^64 + nelem in one without ("Wrapped", nelem < 0).   *)
(* hint is <<lower, upper>>, the upper bound being Some(upper).            *)
size_hint_of_capacity(it, list) ==
    LET nelem == capacity(list) - it.idx
    IN  IF nelem < 0
        THEN {[outcome |-> "Panic", hint |-> <<>>],
              [outcome |-> "Wrapped", hint |-> <<nelem, nelem>>]}
        ELSE {[outcome |-> "Returned", hint |-> <<nelem, nelem>>]}

size_hint(it, list) ==
    LET nelem == len(list) - it.idx
    IN  IF nelem < 0
        THEN {[outcome |-> "Panic", hint |-> <<>>],
              [outcome |-> "Wrapped", hint |-> <<nelem, nelem>>]}
        ELSE {[outcome |-> "Returned", hint |-> <<nelem, nelem>>]}

(* ------------------------------ inputs -------------------------------- *)
Slices(n) == UNION {[1..k -> Values] : k \in 0..n}
Regions == Slices(MaxCap)
AllVecs == {Vec(m, n) : <<m, n>> \in {mn \in Regions \X (0..MaxCap) : mn[2] <= Len(mn[1])}}
Fns == [Values -> Values]
Preds == SUBSET Values
Indices(v) == 0..(capacity(v) + 1)
Views == 1..MaxViews

(* ------------------------------ history ------------------------------- *)
(* last: the call that has just returned or panicked, its arguments, the  *)
(* vector before it and what it gave back; op = "none" between calls, once *)
(* the caller has taken the result.  A panic ends the program.             *)
NoOp(pre) ==
    [op |-> "none", index |-> NoRet, value |-> NoRet, values |-> <<>>,
     fn |-> <<>>, pred |-> {}, other |-> Vec(<<>>, 0), pre |-> pre,
     outcome |-> "Returned", ret |-> NoRet, steps |-> 0,
     flag |-> "none", fed |-> <<>>, view |-> 0, hint |-> <<>>]

Hist(op, r) ==
    [NoOp(vec) EXCEPT !.op = op, !.outcome = r.outcome, !.ret = r.ret,
                      !.steps = r.steps]

Panicked == last.outcome = "Panic"
Ready == last.op = "none"
(* a live view borrows the vector: no &mut self method can be called      *)
Unborrowed == \A k \in Views : ~iters[k].live

(* ------------------------------ second run --------------------------- *)
(* twin: a second vector over a region of the same size, given the same    *)
(* calls with the same arguments as vec.  twin.last is what its call gave  *)
(* back: outcome, returned value, eq's answer, what hash fed the hasher,   *)
(* size_hint's pair.  With on = FALSE there is no second vector.           *)
Seen(outcome, ret, flag, fed, hint) ==
    [outcome |-> outcome, ret |-> ret, flag |-> flag, fed |-> fed, hint |-> hint]
Idle == Seen("Returned", NoRet, "none", <<>>, <<>>)
NoTwin ==
    [on |-> FALSE, vec |-> Vec(<<>>, 0), iters |-> [k \in Views |-> NoView],
     last |-> Idle]
Twin(v, its, seen) == [on |-> TRUE, vec |-> v, iters |-> its, last |-> seen]
Mutated(r, its) == {Twin(r.vec, its, Seen(r.outcome, r.ret, "none", <<>>, <<>>))}

(* the call recorded in h, made on the second vector v with its views its  *)
Apply(h, v, its) ==
    CASE h.op = "push" -> Mutated(push(v, h.value), its)
      [] h.op = "push_all" -> Mutated(push_all(v, h.values), its)
      [] h.op = "insert" -> Mutated(insert(v, h.index, h.value), its)
      [] h.op = "extend" -> Mutated(extend(v, h.values), its)
      [] h.op = "pop" -> Mutated(pop(v), its)
      [] h.op = "remove" -> Mutated(remove(v, h.index), its)
      [] h.op = "swap_remove" -> Mutated(swap_remove(v, h.index), its)
      [] h.op = "clear" -> Mutated(clear(v), its)
      [] h.op = "resize" -> Mutated(resize(v, h.index, h.value), its)
      [] h.op = "retain" -> Mutated(retain(v, h.pred), its)
      [] h.op = "dedup" -> Mutated(dedup(v), its)
      [] h.op = "map_in_place" -> Mutated(map_in_place(v, h.fn), its)
      [] h.op = "index" -> Mutated(index(v, h.index), its)
      [] h.op = "index_mut" -> Mutated(index_mut(v, h.index, h.value), its)
      [] h.op = "hash" ->
           {Twin(v, its, Seen("Returned", NoRet, "none", hash(v), <<>>))}
      [] h.op = "eq" ->
           LET b == eq(v, h.other)
           IN  {Twin(v, its, Seen(IF b = "panic" THEN "Panic" ELSE "Returned",
                                  NoRet, b, <<>>, <<>>))}
      [] h.op = "iter" ->
           {Twin(v, [its EXCEPT ![h.view] = iter(v)], Idle)}
      [] h.op = "next" ->
           LET r == next(its[h.view], v)
           IN  {Twin(v, [its EXCEPT ![h.view] = r.it],
                     Seen(r.outcome, r.ret, "none", <<>>, <<>>))}
      [] h.op = "size_hint" ->
           {Twin(v, its, Seen(r.outcome, NoRet, "none", <<>>, r.hint)) :
              r \in size_hint(its[h.view], v)}
      [] OTHER ->
           {Twin(v, [k \in Views |-> IF iters'[k].live THEN its[k] ELSE NoView],
                 Idle)}

TwinPanicked == twin.on /\ twin.last.outcome = "Panic"

(* the second vector takes the step the first has just taken              *)
TwinFollows ==
    IF twin.on
    THEN twin' \in Apply(last', twin.vec, twin.iters)
    ELSE UNCHANGED twin

(* ------------------------------- state -------------------------------- *)
Init ==
    /\ region \in 0..MaxCap
    /\ \E memory \in [1..region -> Values] : vec = new(memory)
    /\ last = NoOp(vec)
    /\ iters = [k \in Views |-> NoView]
    /\ twin = NoTwin

(* two vectors of equal capacity whose regions hold any slot values       *)
InitPair ==
    /\ region \in 0..MaxCap
    /\ \E memory \in [1..region -> Values] : vec = new(memory)
    /\ last = NoOp(vec)
    /\ iters = [k \in Views |-> NoView]
    /\ \E memory \in [1..region -> Values] :
         twin = Twin(new(memory), [k \in Views |-> NoView], Idle)

Push ==
    /\ Ready
    /\ Unborrowed
    /\ \E value \in Values :
         LET r == push(vec, value)
         IN  /\ vec' = r.vec
             /\ last' = [Hist("push", r) EXCEPT !.value = value]
    /\ UNCHANGED <<region, iters>>
    /\ TwinFollows

PushAll ==
    /\ Ready
    /\ Unborrowed
    /\ \E other \in Slices(MaxInput) :
         LET r == push_all(vec, other)
         IN  /\ vec' = r.vec
             /\ last' = [Hist("push_all", r) EXCEPT !.values = other]
    /\ UNCHANGED <<region, iters>>
    /\ TwinFollows

Insert ==
    /\ Ready
    /\ Unborrowed
    /\ \E i \in Indices(vec), element \in Values :
         LET r == insert(vec, i, element)
         IN  /\ vec' = r.vec
             /\ last' = [Hist("insert", r) EXCEPT !.index = i, !.value = element]
    /\ UNCHANGED <<region, iters>>
    /\ TwinFollows

Extend ==
    /\ Ready
    /\ Unborrowed
    /\ \E iterable \in Slices(MaxInput) :
         LET r == extend(vec, iterable)
         IN  /\ vec' = r.vec
             /\ last' = [Hist("extend", r) EXCEPT !.values = iterable]
    /\ UNCHANGED <<region, iters>>
    /\ TwinFollows

Pop ==
    /\ Ready
    /\ Unborrowed
    /\ LET r == pop(vec)
       IN  /\ vec' = r.vec
           /\ last' = Hist("pop", r)
    /\ UNCHANGED <<region, iters>>
    /\ TwinFollows

Remove ==
    /\ Ready
    /\ Unborrowed
    /\ \E i \in Indices(vec) :
         LET r == remove(vec, i)
         IN  /\ vec' = r.vec
             /\ last' = [Hist("remove", r) EXCEPT !.index = i]
    /\ UNCHANGED <<region, iters>>
    /\ TwinFollows

SwapRemove ==
    /\ Ready
    /\ Unborrowed
    /\ \E i \in Indices(vec) :
         LET r == swap_remove(vec, i)
         IN  /\ vec' = r.vec
             /\ last' = [Hist("swap_remove", r) EXCEPT !.index = i]
    /\ UNCHANGED <<region, iters>>
    /\ TwinFollows

Clear ==
    /\ Ready
    /\ Unborrowed
    /\ LET r == clear(vec)
       IN  /\ vec' = r.vec
           /\ last' = Hist("clear", r)
    /\ UNCHANGED <<region, iters>>
    /\ TwinFollows

Resize ==
    /\ Ready
    /\ Unborrowed
    /\ \E new_len \in Indices(vec), value \in Values :
         LET r == resize(vec, new_len, value)
         IN  /\ vec' = r.vec
             /\ last' = [Hist("resize", r) EXCEPT !.index = new_len, !.value = value]
    /\ UNCHANGED <<region, iters>>
    /\ TwinFollows

Retain ==
    /\ Ready
    /\ Unborrowed
    /\ \E f \in Preds :
         LET r == retain(vec, f)
         IN  /\ vec' = r.vec
             /\ last' = [Hist("retain", r) EXCEPT !.pred = f]
    /\ UNCHANGED <<region, iters>>
    /\ TwinFollows

Dedup ==
    /\ Ready
    /\ Unborrowed
    /\ LET r == dedup(vec)
       IN  /\ vec' = r.vec
           /\ last' = Hist("dedup", r)
    /\ UNCHANGED <<region, iters>>
    /\ TwinFollows

MapInPlace ==
    /\ Ready
    /\ Unborrowed
    /\ \E f \in Fns :
         LET r == map_in_place(vec, f)
         IN  /\ vec' = r.vec
             /\ last' = [Hist("map_in_place", r) EXCEPT !.fn = f]
    /\ UNCHANGED <<region, iters>>
    /\ TwinFollows

IndexRead ==
    /\ Ready
    /\ \E i \in Indices(vec) :
         LET r == index(vec, i)
         IN  /\ vec' = r.vec
             /\ last' = [Hist("index", r) EXCEPT !.index = i]
    /\ UNCHANGED <<region, iters>>
    /\ TwinFollows

IndexWrite ==
    /\ Ready
    /\ Unborrowed
    /\ \E i \in Indices(vec), x \in Values :
         LET r == index_mut(vec, i, x)
         IN  /\ vec' = r.vec
             /\ last' = [Hist("index_mut", r) EXCEPT !.index = i, !.value = x]
    /\ UNCHANGED <<region, iters>>
    /\ TwinFollows

HashOp ==
    /\ Ready
    /\ last' = [NoOp(vec) EXCEPT !.op = "hash", !.fed = hash(vec)]
    /\ UNCHANGED <<vec, region, iters>>
    /\ TwinFollows

(* eq only reads: it is explored from the states without a live view,     *)
(* where vec takes every value it takes with one.                          *)
EqOp ==
    /\ Ready
    /\ Unborrowed
    /\ \E other \in AllVecs :
         LET b == eq(vec, other)
         IN  last' = [NoOp(vec) EXCEPT !.op = "eq", !.other = other, !.flag = b,
                                       !.outcome = IF b = "panic" THEN "Panic"
                                                   ELSE "Returned"]
    /\ UNCHANGED <<vec, region, iters>>
    /\ TwinFollows

IterNew ==
    /\ Ready
    /\ \E k \in Views :
         /\ ~iters[k].live
         /\ iters' = [iters EXCEPT ![k] = iter(vec)]
         /\ last' = [NoOp(vec) EXCEPT !.op = "iter", !.view = k]
    /\ UNCHANGED <<vec, region>>
    /\ TwinFollows

IterNext ==
    /\ Ready
    /\ \E k \in Views :
         /\ iters[k].live
         /\ LET r == next(iters[k], vec)
            IN  /\ iters' = [iters EXCEPT ![k] = r.it]
                /\ last' = [NoOp(vec) EXCEPT !.op = "next", !.view = k,
                                             !.index = iters[k].idx,
                                             !.outcome = r.outcome,
                                             !.ret = r.ret]
    /\ UNCHANGED <<vec, region>>
    /\ TwinFollows

IterSizeHint ==
    /\ Ready
    /\ \E k \in Views :
         /\ iters[k].live
         /\ \E r \in size_hint(iters[k], vec) :
              last' = [NoOp(vec) EXCEPT !.op = "size_hint", !.view = k,
                                        !.index = iters[k].idx,
                                        !.outcome = r.outcome,
                                        !.hint = r.hint]
    /\ UNCHANGED <<vec, region, iters>>
    /\ TwinFollows

IterDrop ==
    /\ Ready
    /\ \E k \in Views :
         /\ iters[k].live
         /\ iters' = [iters EXCEPT ![k] = NoView]
    /\ UNCHANGED <<vec, region, last>>
    /\ TwinFollows

Return ==
    /\ ~Ready
    /\ ~Panicked
    /\ ~TwinPanicked
    /\ last' = NoOp(vec)
    /\ UNCHANGED <<vec, region, iters>>
    /\ TwinFollows

Next ==
    \/ Push \/ PushAll \/ Insert \/ Extend \/ Pop \/ Remove \/ SwapRemove
    \/ Clear \/ Resize \/ Retain \/ Dedup \/ MapInPlace
    \/ IndexRead \/ IndexWrite \/ HashOp \/ EqOp
    \/ IterNew \/ IterNext \/ IterSizeHint \/ IterDrop \/ Return

Spec == Init /\ [][Next]_vars

SpecPair == InitPair /\ [][Next]_vars

(* ============================== claims ================================ *)
Pre == last.pre
Inserted(sl, i, x) == SubSeq(sl, 1, i) \o <<x>> \o SubSeq(sl, i + 1, Len(sl))

(* C1: after any sequence of operations 0 <= len() <= capacity(),          *)
(* capacity() is still the size of the region handed to new, and           *)
(* available() = capacity() - len() does not underflow.                    *)
C1_LenWithinCapacity ==
    /\ 0 <= len(vec)
    /\ len(vec) <= capacity(vec)
    /\ capacity(vec) = region
    /\ available(vec) >= 0

C1_Witness ==
    /\ last.op \in {"push", "push_all", "insert", "extend", "resize", "retain"}
    /\ capacity(vec) >= 2
    /\ len(vec) = capacity(vec)
    /\ available(vec) = 0

(* C2: with available() >= 1 and 0 <= index <= len(), insert(index, value) *)
(* returns success, len() grows by one and the active elements are the     *)
(* prior ones with value placed at position index; this covers the insert  *)
(* that uses the last free slot.                                           *)
C2_InsertWithinLenSucceeds ==
    (last.op = "insert" /\ available(Pre) >= 1 /\ last.index <= len(Pre))
    => /\ last.outcome = "Ok"
       /\ len(vec) = len(Pre) + 1
       /\ as_slice(vec) = Inserted(as_slice(Pre), last.index, last.value)

(* C3: vec[i] and vec[i] = x fail fatally for every i >= len(), also when  *)
(* len() <= i < capacity().                                                *)
C3_IndexBeyondLenPanics ==
    (last.op \in {"index", "index_mut"} /\ last.index >= len(Pre))
    => last.outcome = "Panic"

(* C4: hashing feeds the hasher only the active elements in order, so two  *)
(* vectors that compare equal give the hasher the same input whatever      *)
(* their region sizes and leftover slots.                                  *)
C4_EqualVectorsHashEqual ==
    last.op = "hash"
    => /\ Tail(last.fed) = as_slice(vec)
       /\ \A o \in AllVecs : eq(vec, o) = "true" => hash(o) = last.fed

(* C5: two vectors compare equal iff their len() agree and their elements  *)
(* agree at every position in [0, len); capacity and the slots at          *)
(* positions >= len play no part.                                          *)
C5_EqIffActiveEqual ==
    last.op = "eq"
    => /\ last.flag \in {"true", "false"}
       /\ last.flag = "true"
          <=> /\ len(vec) = len(last.other)
              /\ \A i \in 0..(len(vec) - 1) :
                    Get(vec.memory, i) = Get(last.other.memory, i)

C5_Witness ==
    /\ last.op = "eq"
    /\ last.flag = "true"
    /\ len(vec) >= 1
    /\ capacity(vec) > capacity(last.other)
    /\ capacity(last.other) > len(vec)
    /\ Get(vec.memory, len(vec)) # Get(last.other.memory, len(vec))

(* C6: whenever insert(index, value) returns success, len() is the prior   *)
(* len() + 1, index < len() and the active element at index is value.      *)
C6_InsertOkStoresAtIndex ==
    (last.op = "insert" /\ last.outcome = "Ok")
    => /\ len(vec) = len(Pre) + 1
       /\ last.index < len(vec)
       /\ Get(vec.memory, last.index) = last.value

(* C7: insert(index, value) panics whenever index > len().                 *)
C7_InsertBeyondLenPanics ==
    (last.op = "insert" /\ last.index > len(Pre))
    => last.outcome = "Panic"

(* C8: push_all(values) is all-or-nothing: more values than available()    *)
(* gives NoSpace with len() and every slot as before; otherwise success,   *)
(* len() grows by the number of values, the prior active elements stay and *)
(* the new tail is values in order.                                        *)
C8_PushAllAllOrNothing ==
    last.op = "push_all"
    => IF Len(last.values) > available(Pre)
       THEN last.outcome = "NoSpace" /\ vec = Pre
       ELSE /\ last.outcome = "Ok"
            /\ len(vec) = len(Pre) + Len(last.values)
            /\ as_slice(vec) = as_slice(Pre) \o last.values

C8_Witness ==
    /\ last.op = "push_all"
    /\ last.outcome = "NoSpace"
    /\ available(Pre) >= 1
    /\ len(Pre) >= 1
    /\ Get(Pre.memory, len(Pre)) # last.values[1]

(* C9: push(value) with available() >= 1 returns success, writes value at  *)
(* position len and increments len, leaving [0, old len) unchanged; with   *)
(* available() = 0 (a zero-size region included) it returns NoSpace and    *)
(* changes nothing; it never faults.                                       *)
C9_PushAppendsOrNoSpace ==
    last.op = "push"
    => /\ last.outcome # "Panic"
       /\ IF available(Pre) >= 1
          THEN /\ last.outcome = "Ok"
               /\ len(vec) = len(Pre) + 1
               /\ Get(vec.memory, len(Pre)) = last.value
               /\ SubSeq(vec.memory, 1, len(Pre)) = as_slice(Pre)
          ELSE last.outcome = "NoSpace" /\ vec = Pre

C9_Witness ==
    /\ last.op = "push"
    /\ last.outcome = "NoSpace"
    /\ capacity(Pre) >= 1
    /\ len(Pre) = capacity(Pre)

(* C10: insert(index, value) with available() = 0 and index <= capacity()  *)
(* returns NoSpace, does not fault, and leaves len() and the active        *)
(* elements unchanged.                                                     *)
C10_InsertFullNoSpace ==
    (last.op = "insert" /\ available(Pre) = 0 /\ last.index <= capacity(Pre))
    => /\ last.outcome = "NoSpace"
       /\ len(vec) = len(Pre)
       /\ as_slice(vec) = as_slice(Pre)

C10_Witness ==
    /\ last.op = "insert"
    /\ last.outcome = "NoSpace"
    /\ len(Pre) >= 1
    /\ available(Pre) = 0
    /\ last.index = capacity(Pre)

Removed(sl, i) == SubSeq(sl, 1, i) \o SubSeq(sl, i + 2, Len(sl))

(* C12: remove(index) with index < len() returns the element at index,     *)
(* decrements len(), keeps [0, index) and moves the elements after index   *)
(* one position left in order; with index >= len() it faults before        *)
(* changing len() or any slot.                                             *)
C12_RemoveShiftsLeft ==
    last.op = "remove"
    => IF last.index < len(Pre)
       THEN /\ last.outcome = "Returned"
            /\ last.ret = Get(Pre.memory, last.index)
            /\ len(vec) = len(Pre) - 1
            /\ as_slice(vec) = Removed(as_slice(Pre), last.index)
       ELSE last.outcome = "Panic" /\ vec = Pre

C12_Witness ==
    /\ last.op = "remove"
    /\ last.outcome = "Returned"
    /\ last.index + 1 < len(Pre)
    /\ Get(Pre.memory, last.index) # Get(Pre.memory, last.index + 1)

(* C13: swap_remove(index) with index < len() returns the element at       *)
(* index and decrements len(); a slot index other than the last then holds *)
(* the former last element and every other remaining element is unchanged; *)
(* with index >= len() it faults without modifying the vector.             *)
C13_SwapRemove ==
    last.op = "swap_remove"
    => IF last.index < len(Pre)
       THEN LET n == len(Pre) - 1
                front == SubSeq(Pre.memory, 1, n)
            IN  /\ last.outcome = "Returned"
                /\ last.ret = Get(Pre.memory, last.index)
                /\ len(vec) = n
                /\ as_slice(vec) =
                     IF last.index = n THEN front
                     ELSE [front EXCEPT ![last.index + 1] = Get(Pre.memory, n)]
       ELSE last.outcome = "Panic" /\ vec = Pre

C13_Witness ==
    /\ last.op = "swap_remove"
    /\ last.outcome = "Returned"
    /\ last.index + 1 < len(Pre)
    /\ Get(Pre.memory, last.index) # Get(Pre.memory, len(Pre) - 1)

(* C14: pop() on an empty vector returns None and changes nothing; on a    *)
(* non-empty one it returns the element at len() - 1 and decrements len(), *)
(* the other active elements unchanged; so a successful push(v) followed   *)
(* at once by pop() returns v and restores len() and the active elements.  *)
C14_PopAndRoundTrip ==
    /\ last.op = "pop"
       => IF len(Pre) = 0
          THEN last.outcome = "None" /\ vec = Pre
          ELSE /\ last.outcome = "Some"
               /\ last.ret = Get(Pre.memory, len(Pre) - 1)
               /\ len(vec) = len(Pre) - 1
               /\ as_slice(vec) = SubSeq(as_slice(Pre), 1, len(Pre) - 1)
    /\ (last.op = "push" /\ last.outcome = "Ok")
       => LET r == pop(vec)
          IN  /\ r.outcome = "Some"
              /\ r.ret = last.value
              /\ len(r.vec) = len(Pre)
              /\ as_slice(r.vec) = as_slice(Pre)

C14_Witness ==
    /\ last.op = "pop"
    /\ last.outcome = "Some"
    /\ len(Pre) >= 2
    /\ len(Pre) < capacity(Pre)
    /\ last.ret # Get(Pre.memory, len(Pre))

(* C15: retain(predicate) leaves exactly the prior active elements that    *)
(* satisfy predicate, in their original order, and len() is their number.  *)
Kept(sl, f) == SelectSeq(sl, LAMBDA x : x \in f)

C15_RetainKeepsSubsequence ==
    last.op = "retain"
    => /\ last.outcome = "Returned"
       /\ len(vec) = Len(Kept(as_slice(Pre), last.pred))
       /\ as_slice(vec) = Kept(as_slice(Pre), last.pred)

C15_Witness ==
    /\ last.op = "retain"
    /\ len(Pre) >= 3
    /\ len(vec) = 2
    /\ Get(Pre.memory, 0) \notin last.pred

(* C16: dedup() collapses each maximal run of consecutive equal elements   *)
(* to its first element and leaves the rest in order; equal elements that  *)
(* were not adjacent both remain; it is a no-op when len() <= 1.           *)
RECURSIVE Collapsed(_)
Collapsed(sl) ==
    IF Len(sl) <= 1 THEN sl
    ELSE LET front == SubSeq(sl, 1, Len(sl) - 1)
         IN  IF sl[Len(sl)] = sl[Len(sl) - 1] THEN Collapsed(front)
             ELSE Append(Collapsed(front), sl[Len(sl)])

C16_DedupCollapsesRuns ==
    last.op = "dedup"
    => /\ last.outcome = "Returned"
       /\ as_slice(vec) = Collapsed(as_slice(Pre))
       /\ \A i \in 1..(len(vec) - 1) : vec.memory[i] # vec.memory[i + 1]
       /\ len(Pre) <= 1 => vec = Pre

C16_Witness ==
    /\ last.op = "dedup"
    /\ len(Pre) >= 3
    /\ len(vec) = 2
    /\ Get(Pre.memory, 0) = Get(Pre.memory, 1)

(* C17: resize(new_len, fill) with new_len <= capacity() sets len() to     *)
(* new_len; shrinking writes fill nowhere; growing keeps [0, prior len)    *)
(* and makes every slot in [prior len, new_len) equal fill; with           *)
(* new_len > capacity() it faults without modifying the vector.            *)
C17_Resize ==
    last.op = "resize"
    => IF last.index <= capacity(Pre)
       THEN /\ last.outcome = "Returned"
            /\ len(vec) = last.index
            /\ IF last.index <= len(Pre)
               THEN vec.memory = Pre.memory
               ELSE /\ SubSeq(vec.memory, 1, len(Pre)) = as_slice(Pre)
                    /\ \A i \in len(Pre)..(last.index - 1) :
                          Get(vec.memory, i) = last.value
       ELSE last.outcome = "Panic" /\ vec = Pre

C17_Witness ==
    /\ last.op = "resize"
    /\ last.outcome = "Returned"
    /\ len(Pre) >= 1
    /\ last.index > len(Pre)
    /\ Get(Pre.memory, 0) # last.value

(* C18: extend(sequence) over n values appends exactly the first           *)
(* min(n, available()) of them in order after the prior active elements,   *)
(* reports no error and never faults, also on a full vector or a region of *)
(* size zero.                                                              *)
Min(a, b) == IF a <= b THEN a ELSE b

C18_ExtendAppendsWhatFits ==
    last.op = "extend"
    => LET k == Min(Len(last.values), available(Pre))
       IN  /\ last.outcome = "Returned"
           /\ len(vec) = len(Pre) + k
           /\ as_slice(vec) = as_slice(Pre) \o SubSeq(last.values, 1, k)

C18_Witness ==
    /\ last.op = "extend"
    /\ len(Pre) >= 1
    /\ available(Pre) = 1
    /\ Len(last.values) = 2
    /\ len(vec) = capacity(vec)

(* C20: clear() sets len() to 0, leaves every slot of the region holding   *)
(* the value it held, and leaves capacity() unchanged.                     *)
C20_ClearKeepsSlots ==
    last.op = "clear"
    => /\ last.outcome = "Returned"
       /\ len(vec) = 0
       /\ vec.memory = Pre.memory
       /\ capacity(vec) = capacity(Pre)

C20_Witness ==
    /\ last.op = "clear"
    /\ len(Pre) >= 2
    /\ \E i \in 0..(len(Pre) - 1) : Get(Pre.memory, i) # 0

(* C19: a view from iter() yields e0, e1, ..., e(len-1) in order on        *)
(* successive next() calls, then None, and None again on every later call; *)
(* a second iter() call starts at e0 however far another view has got.     *)
C19_IterYieldsActiveInOrder ==
    /\ \A k \in Views :
         iters[k].live
         => /\ iters[k].idx = Len(iters[k].yielded)
            /\ iters[k].idx <= len(vec)
            /\ iters[k].yielded = SubSeq(as_slice(vec), 1, iters[k].idx)
    /\ last.op = "iter"
       => iters[last.view].idx = 0 /\ iters[last.view].yielded = <<>>
    /\ last.op = "next"
       => IF last.index < len(vec)
          THEN /\ last.outcome = "Some"
               /\ last.ret = Get(vec.memory, last.index)
               /\ iters[last.view].idx = last.index + 1
          ELSE /\ last.outcome = "None"
               /\ iters[last.view].idx = last.index
               /\ iters[last.view].yielded = as_slice(vec)

C19_Witness ==
    /\ last.op = "next"
    /\ last.view = 2
    /\ last.index = 0
    /\ last.outcome = "Some"
    /\ len(vec) >= 2
    /\ Get(vec.memory, 0) # Get(vec.memory, 1)
    /\ iters[1].live
    /\ iters[1].yielded = as_slice(vec)

(* C21: every operation, with any arguments, ends (by returning or by a    *)
(* fatal bounds fault) after at most capacity() loop steps; insert's       *)
(* descending shift loop also stops when index > len(), and the scans of   *)
(* retain and dedup stop after len() steps.                                *)
LoopOps ==
    {"push", "push_all", "insert", "extend", "pop", "remove", "swap_remove",
     "clear", "resize", "retain", "dedup", "map_in_place"}

C21_StepsBoundedByCapacity ==
    last.op \in LoopOps
    => /\ last.outcome \in {"Ok", "NoSpace", "Some", "None", "Returned", "Panic"}
       /\ last.steps >= 0
       /\ last.steps <= capacity(Pre)
       /\ last.op \in {"retain", "dedup"} => last.steps <= len(Pre)
       /\ (last.op = "insert" /\ last.index > len(Pre))
          => last.steps <= len(Pre) + 2

C21_Witness ==
    /\ last.op = "insert"
    /\ last.index > len(Pre) + 1
    /\ last.index <= capacity(Pre)
    /\ last.outcome = "Panic"
    /\ last.steps = capacity(Pre)
    /\ last.steps >= 3

(* C22: the cursor of a view starts at 0, never decreases, grows by       *)
(* exactly one per yielded element (and not otherwise) and never exceeds   *)
(* len(); size_hint() always returns lower = upper = len() - idx, which is *)
(* the number of elements next() will still yield, and the subtraction     *)
(* never goes below zero.                                                  *)
RECURSIVE Remaining(_, _)
Remaining(it, list) ==
    LET r == next(it, list)
    IN  IF r.outcome = "Some" THEN 1 + Remaining(r.it, list) ELSE 0

CursorInRange ==
    /\ \A k \in Views :
         iters[k].live => iters[k].idx >= 0 /\ iters[k].idx <= len(vec)
    /\ last.op = "iter" => iters[last.view].idx = 0
    /\ last.op = "size_hint"
       => /\ last.outcome = "Returned"
          /\ last.hint = <<len(vec) - iters[last.view].idx,
                           len(vec) - iters[last.view].idx>>
          /\ last.hint[1] >= 0
          /\ last.hint[1] = Remaining(iters[last.view], vec)

CursorStep ==
    \A k \in Views :
      (iters[k].live /\ iters'[k].live)
      => IF last'.op = "next" /\ last'.view = k /\ last'.outcome = "Some"
            /\ last.op = "none"
         THEN iters'[k].idx = iters[k].idx + 1
         ELSE iters'[k].idx = iters[k].idx

C22_CursorAndSizeHint == []CursorInRange /\ [][CursorStep]_vars

C22_Witness ==
    /\ last.op = "size_hint"
    /\ iters[last.view].idx >= 1
    /\ last.hint = <<1, 1>>
    /\ len(vec) < capacity(vec)
    /\ \E k \in Views : iters[k].live /\ iters[k].idx = len(vec)

(* C23: leftover region contents are unobservable.  Two vectors of equal  *)
(* capacity whose regions start with different slot values, given the same *)
(* calls with the same arguments, agree at every step on the outcome, the  *)
(* returned value (eq's answer, the hasher's input and size_hint's pair    *)
(* included), len() and the active elements; a value that differs between  *)
(* the two runs is one the caller never supplied.                          *)
C23_LeftoverUnobservable ==
    twin.on
    => /\ last.outcome = twin.last.outcome
       /\ last.ret = twin.last.ret
       /\ last.flag = twin.last.flag
       /\ last.fed = twin.last.fed
       /\ last.hint = twin.last.hint
       /\ len(vec) = len(twin.vec)
       /\ as_slice(vec) = as_slice(twin.vec)

=============================================================================
